---------------------------- MODULE Spec2Model ----------------------------
(***************************************************************************)
(* FleetGuardian (FleetGuardian_Main-Shayan_Shome.c): the fleet array, the *)
(* menu loop of main and its handlers, the maintenance evaluator and the   *)
(* data file.                                                              *)
(*                                                                         *)
(* Strings are sequences of character codes (ASCII), so that tolower,      *)
(* toupper and the truncating strncpy act on them as in the C source.      *)
(* Mileages are whole kilometres that a float holds; a sum or difference   *)
(* of them is the integer nearest-even rounded to 24 significant bits, and *)
(* every other float the evaluator computes is carried as a binary32 value *)
(* <<m, e>> = m * 2^e with 2^23 <= m < 2^24, rounded to nearest-even after *)
(* each operation as the C float arithmetic does.                          *)
(***************************************************************************)
EXTENDS Integers, Sequences, FiniteSets, TLC

VARIABLES
    pc,        \* position of main: load, refdate, menu, inside add/edit, done
    fleet,     \* fleet[0..count-1] as a sequence; count is Len(fleet)
    capacity,  \* allocated slots of the fleet array
    today,     \* reference date
    slot,      \* bus_code written into fleet[count] by an unfinished add_bus
    idx,       \* position chosen by edit_bus_by_position (0-based), else -1
    req,       \* the input a claim needs of the last step (code, number, index)
    msg,       \* last message printed
    shown,     \* records emitted by the last display, export or save
    file       \* contents of bus_data.txt on disk

vars == <<pc, fleet, capacity, today, slot, idx, req, msg, shown, file>>

(***************************************************************************)
(* Program constants                                                        *)
(***************************************************************************)
DUE_SOON_KM == 500
STATUS_OK == 0
STATUS_DUE_SOON == 1
STATUS_OVERDUE == 2
BUS_CODE_SIZE == 20
DRIVER_NAME_SIZE == 50

(***************************************************************************)
(* Bounds of the model                                                      *)
(***************************************************************************)
MaxFleet == 2

(***************************************************************************)
(* Characters and strings                                                   *)
(***************************************************************************)
c_tolower(c) == IF c \in 65..90 THEN c + 32 ELSE c

c_toupper(c) == IF c \in 97..122 THEN c - 32 ELSE c

\* equal ignoring case: both strings end together and never differ before
str_ieq(a, b) ==
    LET n == IF Len(a) < Len(b) THEN Len(a) ELSE Len(b)
    IN  /\ \A i \in 1..n : c_tolower(a[i]) = c_tolower(b[i])
        /\ Len(a) = Len(b)

\* mutant: the code is stored as typed
to_upper_str_unchanged(s) == s

to_upper_str(s) == [i \in 1..Len(s) |-> c_toupper(s[i])]

\* strncpy(dest, src, size - 1); dest[size - 1] = '\0'
strncpy_z(src, size) ==
    SubSeq(src, 1, IF Len(src) < size - 1 THEN Len(src) ELSE size - 1)

(***************************************************************************)
(* Dates                                                                    *)
(***************************************************************************)
Date(d, m, y) == [day |-> d, month |-> m, year |-> y]

is_valid_date(d) ==
    ~(d.year <= 0 \/ d.month < 1 \/ d.month > 12 \/ d.day < 1 \/ d.day > 31)

\* mutant: the month is not scaled to days
date_to_days_month_unscaled(d) == d.year * 365 + d.month + d.day

date_to_days(d) == d.year * 365 + d.month * 30 + d.day

\* mutant: month 0 and day 0 are kept
days_to_date_no_clamp(total) ==
    [day |-> (total % 365) % 30, month |-> (total % 365) \div 30,
     year |-> total \div 365]

days_to_date(total) ==
    LET rem == total % 365
        mo  == rem \div 30
        dy  == rem % 30
    IN  [day   |-> IF dy = 0 THEN 1 ELSE dy,
         month |-> IF mo = 0 THEN 1 ELSE mo,
         year  |-> total \div 365]

add_days(d, days) == days_to_date(date_to_days(d) + days)

(***************************************************************************)
(* binary32 arithmetic on non-negative values <<m, e>> = m * 2^e            *)
(***************************************************************************)
P23 == 8388608
P24 == 16777216

Pow2Tab == <<1, 2, 4, 8, 16, 32, 64, 128, 256, 512, 1024, 2048, 4096, 8192,
             16384, 32768, 65536, 131072, 262144, 524288, 1048576, 2097152,
             4194304, 8388608, 16777216, 33554432, 67108864, 134217728,
             268435456, 536870912, 1073741824>>

\* 2^k for 0 <= k <= 30
Pow2(k) == Pow2Tab[k + 1]

\* number of binary digits of 0 <= n < 256
BitLen8(n) ==
    IF n < 16
    THEN (IF n < 4 THEN (IF n < 2 THEN n ELSE 2) ELSE (IF n < 8 THEN 3 ELSE 4))
    ELSE (IF n < 64 THEN (IF n < 32 THEN 5 ELSE 6)
                    ELSE (IF n < 128 THEN 7 ELSE 8))

\* number of binary digits of n >= 0
BitLen(n) ==
    IF n < 65536
    THEN (IF n < 256 THEN BitLen8(n) ELSE 8 + BitLen8(n \div 256))
    ELSE (IF n < P24 THEN 16 + BitLen8(n \div 65536)
                     ELSE 24 + BitLen8(n \div P24))

F_ZERO == <<0, 0>>
F_1_5  == <<3 * 4194304, -23>>

\* n has more than 24 bits: drop its d low bits, rounding to nearest-even
RoundDrop(n, ex, sticky, d) ==
    LET dropped(q, r, half) ==
            LET m == IF r > half \/ (r = half /\ (sticky \/ q % 2 = 1))
                     THEN q + 1 ELSE q
            IN  IF m = P24 THEN <<P23, ex + d + 1>> ELSE <<m, ex + d>>
    IN  dropped(n \div Pow2(d), n % Pow2(d), Pow2(d - 1))

\* n has bits binary digits
RoundBits(n, ex, sticky, bits) ==
    IF n = 0 THEN F_ZERO
    ELSE IF bits <= 24 THEN <<n * Pow2(24 - bits), ex - (24 - bits)>>
    ELSE RoundDrop(n, ex, sticky, bits - 24)

\* the binary32 nearest (ties to even) to (n + f) * 2^ex, where f = 0 when
\* ~sticky and 0 < f < 1 when sticky (then n has at least 26 bits)
RoundF(n, ex, sticky) == RoundBits(n, ex, sticky, BitLen(n))

\* long division of a by b, up to 7 quotient bits a step, until the quotient
\* has 27 bits (q >= 2^26) or the division ends; q < 2^27 and r < b < 2^24
DivBits[q \in Nat, r \in Nat, b \in Nat, k \in Nat] ==
    LET s == IF q < 1048576 THEN 7 ELSE 27 - BitLen(q)
    IN  IF r = 0 \/ q >= 4 * P24 THEN RoundF(q, 0 - k, r # 0)
        ELSE DivBits[q * Pow2(s) + ((r * Pow2(s)) \div b),
                     (r * Pow2(s)) % b, b, k + s]

\* (float)a / (float)b for floats holding integers 0 <= a < 2^27, 0 < b < 2^24
FDivInt(a, b) == DivBits[a \div b, a % b, b, 0]

FGt(x, y) ==
    IF y[1] = 0 THEN x[1] > 0
    ELSE IF x[1] = 0 THEN FALSE
    ELSE x[2] > y[2] \/ (x[2] = y[2] /\ x[1] > y[1])

\* 1.5f - m * 2^e for 0 <= m * 2^e <= 1.5, in units of 2^-30
Sub1_5(m, e) ==
    LET A == 3 * 536870912
        low(hi, lo) == IF lo = 0 THEN RoundF(A - hi, -30, FALSE)
                       ELSE RoundF(A - hi - 1, -30, TRUE)
    IN  IF m = 0 THEN F_1_5
        ELSE IF e >= -30 THEN RoundF(A - m * Pow2(e + 30), -30, FALSE)
        ELSE IF -30 - e > 24 THEN low(0, m)
        ELSE low(m \div Pow2(-30 - e), m % Pow2(-30 - e))

FSubFrom1_5(x) == Sub1_5(x[1], x[2])

\* x / 1.5f
FDivBy1_5(x) ==
    IF x[1] = 0 THEN F_ZERO
    ELSE RoundF((64 * x[1]) \div 3, x[2] - 5, (64 * x[1]) % 3 # 0)

\* x * 100.0f
FMul100(x) == RoundF(x[1] * 100, x[2], FALSE)

\* mutant: conversion to the nearest integer
FToInt_nearest(x) ==
    IF x[2] >= 0 THEN x[1] * Pow2(x[2])
    ELSE IF 0 - x[2] > 30 THEN 0
    ELSE (x[1] + Pow2(0 - x[2] - 1)) \div Pow2(0 - x[2])

\* (int)x, truncation toward zero
FToInt(x) ==
    IF x[2] >= 0 THEN x[1] * Pow2(x[2])
    ELSE IF 0 - x[2] > 30 THEN 0
    ELSE x[1] \div Pow2(0 - x[2])

\* the binary32 nearest to the integer n, |n| < 2^30: what a float holds
\* after a sum or a difference whose exact value is n
FRoundInt(n) ==
    LET a == IF n < 0 THEN 0 - n ELSE n
        r == RoundF(a, 0, FALSE)
        v == r[1] * Pow2(r[2])
    IN  IF a < P24 THEN n ELSE IF n < 0 THEN 0 - v ELSE v

\* the float strtof returns for "nan": read_float_strict returns it, since
\* neither val < min nor val > max holds of it. It is kept as a value no
\* mileage of the model reaches
F_NAN == 0 - Pow2(30)

FIsNaN(x) == x = F_NAN

\* x + y and x - y of two floats holding whole numbers (or NaN)
FAddInt(x, y) == IF FIsNaN(x) \/ FIsNaN(y) THEN F_NAN ELSE FRoundInt(x + y)

FSubInt(x, y) == IF FIsNaN(x) \/ FIsNaN(y) THEN F_NAN ELSE FRoundInt(x - y)

\* x >= y and x <= y: false when either is NaN
FGe(x, y) == ~FIsNaN(x) /\ ~FIsNaN(y) /\ x >= y

FLe(x, y) == ~FIsNaN(x) /\ ~FIsNaN(y) /\ x <= y

\* (int)x for x NaN: the conversion instruction returns INT_MIN (x86) or 0
\* (ARM); the clamp of the score that follows maps both to 0
INT_OF_NAN == 0 - Pow2(30) - Pow2(30)

(***************************************************************************)
(* The inputs the prompts are given                                         *)
(***************************************************************************)
X19 == [i \in 1..19 |-> 88]

\* "a1", "A1", and two 20-character codes with the same first 19; every
\* line is shorter than tmp[64], so read_line_stdin returns it whole
CodeInputs == {<<97, 49>>, <<65, 49>>, X19 \o <<49>>, X19 \o <<50>>}

NameInputs == {<<74, 111, 101>>}

BusNos == {1, 2, 7}

\* what read_date accepts for the reference date
RefDates == {Date(1, 1, 2024), Date(1, 3, 2024)}

\* the fields add_bus reads after the number:
\* last service date, last service km, current km, interval km, interval days
AddProfiles == {<<Date(1, 1, 2024), 0, 50, 1000, 30>>}

\* the same fields as edit_bus_by_position reads them
EditProfiles == {<<Date(1, 1, 2024), 0, 600, 1000, 30>>}

\* the mileage update_mileage reads
MileageInputs == {600}

(***************************************************************************)
(* Maintenance evaluator                                                    *)
(***************************************************************************)
NoDate == Date(0, 0, 0)

\* ratio clamped to [0, 1.5], then (int)((1.5f - ratio) / 1.5f * 100.0f)
\* clamped to [0, 100]
clamp_score(h) == IF h < 0 THEN 0 ELSE IF h > 100 THEN 100 ELSE h

score_of_ratio(ratio0) ==
    LET ratio == IF FGt(ratio0, F_1_5) THEN F_1_5 ELSE ratio0
    IN  clamp_score(FToInt(FMul100(FDivBy1_5(FSubFrom1_5(ratio)))))

\* used / interval_km as a float, clamped below at 0.0f: a negative ratio
\* (used < 0) is the one the first clamp sets to 0.0f; used is not NaN
ratio_of(used, interval_km) ==
    IF used < 0 THEN F_ZERO ELSE FDivInt(used, interval_km)

\* the score of used / interval_km, interval_km > 0: a NaN ratio passes both
\* clamps of the ratio and is converted to int as it is
score_of_used(used, interval_km) ==
    IF FIsNaN(used) THEN clamp_score(INT_OF_NAN)
    ELSE score_of_ratio(ratio_of(used, interval_km))

\* the scores of the mileages the prompts of the model can produce, computed
\* once; any other mileage is computed when it is met
ScoreMemo ==
    [p \in {<<FSubInt(q[3], q[2]), q[4]>> : q \in AddProfiles \cup EditProfiles}
           \cup {<<FSubInt(km, q[2]), q[4]>> :
                   km \in MileageInputs, q \in AddProfiles \cup EditProfiles}
       |-> score_of_used(p[1], p[2])]

\* mutant: no neutral score when no interval is configured
health_score_of_no_default(b) ==
    IF b.service_interval_km > 0
    THEN score_of_used(FSubInt(b.current_mileage, b.last_service_mileage),
                       b.service_interval_km)
    ELSE score_of_ratio(F_ZERO)

\* mutant: the used mileage is taken the wrong way round
health_score_of_used_reversed(b) ==
    IF b.service_interval_km > 0
    THEN score_of_used(FSubInt(b.last_service_mileage, b.current_mileage),
                       b.service_interval_km)
    ELSE 50

\* b->health_score as update_maintenance_status computes it
health_score_of(b) ==
    LET used == FSubInt(b.current_mileage, b.last_service_mileage)
    IN  IF b.service_interval_km > 0
        THEN IF <<used, b.service_interval_km>> \in DOMAIN ScoreMemo
             THEN ScoreMemo[<<used, b.service_interval_km>>]
             ELSE score_of_used(used, b.service_interval_km)
        ELSE 50

\* mutant: the interval is not counted from the last service mileage
due_mileage_interval_only(b) == b.service_interval_km

\* float due_mileage = b->last_service_mileage + b->service_interval_km
due_mileage(b) == FAddInt(b.last_service_mileage, b.service_interval_km)

\* b->km_left = due_mileage - b->current_mileage, a float
km_left_of(b) == FSubInt(due_mileage(b), b.current_mileage)

\* mutant: a bus exactly at its due mileage is not overdue
mileage_overdue_strict(b) ==
    FGe(b.current_mileage, due_mileage(b)) /\ b.current_mileage # due_mileage(b)

mileage_overdue(b) == FGe(b.current_mileage, due_mileage(b))

mileage_due_soon(b) == ~mileage_overdue(b) /\ FLe(km_left_of(b), DUE_SOON_KM)

\* the guard of the date branch
date_checked(b, tdy) ==
    /\ b.service_interval_days > 0
    /\ is_valid_date(b.last_service)
    /\ is_valid_date(tdy)

date_overdue(b, tdy) ==
    /\ date_checked(b, tdy)
    /\ date_to_days(tdy) - date_to_days(b.last_service)
          >= b.service_interval_days

update_maintenance_status(b, tdy) ==
    [b EXCEPT
       !.km_left  = km_left_of(b),
       !.next_due = IF date_checked(b, tdy)
                    THEN add_days(b.last_service, b.service_interval_days)
                    ELSE NoDate,
       !.status   = IF mileage_overdue(b) \/ date_overdue(b, tdy)
                    THEN STATUS_OVERDUE
                    ELSE IF mileage_due_soon(b) THEN STATUS_DUE_SOON
                    ELSE STATUS_OK,
       !.health_score = health_score_of(b)]

(***************************************************************************)
(* Records                                                                  *)
(***************************************************************************)
Bus(code, name, no, ls, lsm, cur, ikm, idays) ==
    [bus_code |-> code, driver_name |-> name, bus_no |-> no,
     last_service |-> ls, next_due |-> NoDate,
     current_mileage |-> cur, last_service_mileage |-> lsm,
     service_interval_km |-> ikm, service_interval_days |-> idays,
     service_history_count |-> 1, status |-> STATUS_OK,
     km_left |-> 0, health_score |-> 100,
     avg_daily_km |-> 120, fuel_efficiency |-> 4]

NoReq == [op |-> "none", no |-> 0, code |-> <<>>, at |-> -1]

Req(op, no, code, at) == [op |-> op, no |-> no, code |-> code, at |-> at]

\* bus_data.txt: whether it exists, and its characters
NoFile == [present |-> FALSE, text |-> <<>>]

FileOf(t) == [present |-> TRUE, text |-> t]

(***************************************************************************)
(* The data file as text: what fprintf writes and what fscanf reads         *)
(***************************************************************************)
IsSpace(c) == c \in {9, 10, 11, 12, 13, 32}

IsDigit(c) == c \in 48..57

\* "%d"
fmt_d(n) ==
    LET digits[k \in Nat] ==
            IF k < 10 THEN <<48 + k>>
            ELSE digits[k \div 10] \o <<48 + (k % 10)>>
    IN  IF n < 0 THEN <<45>> \o digits[0 - n] ELSE digits[n]

\* "%.2f" of a float that holds a whole number ("nan" of a NaN)
fmt_2f(x) ==
    IF FIsNaN(x) THEN <<110, 97, 110>> ELSE fmt_d(x) \o <<46, 48, 48>>

\* the 19 arguments of the fprintf of a record, each as it is printed
BusFields(b) ==
    <<b.bus_code, b.driver_name, fmt_d(b.bus_no),
      fmt_d(b.last_service.day), fmt_d(b.last_service.month),
      fmt_d(b.last_service.year),
      fmt_d(b.next_due.day), fmt_d(b.next_due.month),
      fmt_d(b.next_due.year),
      fmt_2f(b.current_mileage), fmt_2f(b.last_service_mileage),
      fmt_2f(b.service_interval_km),
      fmt_d(b.service_interval_days), fmt_d(b.service_history_count),
      fmt_d(b.status),
      fmt_2f(b.km_left), fmt_d(b.health_score),
      fmt_2f(b.avg_daily_km), fmt_2f(b.fuel_efficiency)>>

\* fields separated by '|', ended by a newline
JoinLine(fs) ==
    LET join[k \in 0..Len(fs)] ==
            IF k = 0 THEN <<>>
            ELSE IF k = 1 THEN fs[1]
            ELSE join[k - 1] \o <<124>> \o fs[k]
    IN  join[Len(fs)] \o <<10>>

save_line(b) == JoinLine(BusFields(b))

\* what save_fleet_to_file writes: the count, then a line a record
save_text(f) ==
    LET lines[k \in 0..Len(f)] ==
            IF k = 0 THEN <<>> ELSE lines[k - 1] \o save_line(f[k])
    IN  fmt_d(Len(f)) \o <<10>> \o lines[Len(f)]

\* the first position from p on that holds no white space
SkipWs(t, p) ==
    LET skip[q \in Nat] ==
            IF q <= Len(t) /\ IsSpace(t[q]) THEN skip[q + 1] ELSE q
    IN  skip[p]

\* the first position from p on that holds no digit
DigitsEnd(t, p) ==
    LET run[q \in Nat] ==
            IF q <= Len(t) /\ IsDigit(t[q]) THEN run[q + 1] ELSE q
    IN  run[p]

\* the number the digits t[p..q-1] write
DigitsVal(t, p, q) ==
    LET val[k \in Nat] ==
            IF k < p THEN 0 ELSE val[k - 1] * 10 + (t[k] - 48)
    IN  val[q - 1]

\* "%19[^|]", "%49[^|]": up to width characters other than '|', at least
\* one; white space is not skipped
scan_set(t, p, width) ==
    LET run[q \in Nat] ==
            IF q <= Len(t) /\ q < p + width /\ t[q] # 124
            THEN run[q + 1] ELSE q
        e == run[p]
    IN  [ok |-> e > p, val |-> SubSeq(t, p, e - 1), pos |-> e]

\* "%d": white space skipped, a sign, digits
scan_d(t, p) ==
    LET p1 == SkipWs(t, p)
        sign == p1 <= Len(t) /\ t[p1] \in {43, 45}
        p2 == IF sign THEN p1 + 1 ELSE p1
        e == DigitsEnd(t, p2)
        v == DigitsVal(t, p2, e)
    IN  [ok |-> e > p2,
         val |-> IF sign /\ t[p1] = 45 THEN 0 - v ELSE v,
         pos |-> e]

\* "%f": white space skipped, a sign, then "nan" or digits with an optional
\* fraction.  The files of the model hold whole numbers (fraction 00), so the
\* value is the float nearest to the integer part
scan_f(t, p) ==
    LET p1 == SkipWs(t, p)
        sign == p1 <= Len(t) /\ t[p1] \in {43, 45}
        p2 == IF sign THEN p1 + 1 ELSE p1
        nan == /\ p2 + 2 <= Len(t)
               /\ <<c_tolower(t[p2]), c_tolower(t[p2 + 1]),
                    c_tolower(t[p2 + 2])>> = <<110, 97, 110>>
        e == DigitsEnd(t, p2)
        dot == e <= Len(t) /\ t[e] = 46
        e2 == IF dot THEN DigitsEnd(t, e + 1) ELSE e
        v == DigitsVal(t, p2, e)
    IN  IF nan THEN [ok |-> TRUE, val |-> F_NAN, pos |-> p2 + 3]
        ELSE [ok |-> e > p2 \/ e2 > e + 1,
              val |-> FRoundInt(IF sign /\ t[p1] = 45 THEN 0 - v ELSE v),
              pos |-> IF e > p2 \/ e2 > e + 1 THEN e2 ELSE p2]

\* the k-th conversion of the fscanf of a record
scan_field(t, p, k) ==
    IF k = 1 THEN scan_set(t, p, BUS_CODE_SIZE - 1)
    ELSE IF k = 2 THEN scan_set(t, p, DRIVER_NAME_SIZE - 1)
    ELSE IF k \in {10, 11, 12, 16, 18, 19} THEN scan_f(t, p)
    ELSE scan_d(t, p)

\* the k-th argument of the fscanf of a record receives v
set_field(b, k, v) ==
    CASE k = 1 -> [b EXCEPT !.bus_code = v]
      [] k = 2 -> [b EXCEPT !.driver_name = v]
      [] k = 3 -> [b EXCEPT !.bus_no = v]
      [] k = 4 -> [b EXCEPT !.last_service.day = v]
      [] k = 5 -> [b EXCEPT !.last_service.month = v]
      [] k = 6 -> [b EXCEPT !.last_service.year = v]
      [] k = 7 -> [b EXCEPT !.next_due.day = v]
      [] k = 8 -> [b EXCEPT !.next_due.month = v]
      [] k = 9 -> [b EXCEPT !.next_due.year = v]
      [] k = 10 -> [b EXCEPT !.current_mileage = v]
      [] k = 11 -> [b EXCEPT !.last_service_mileage = v]
      [] k = 12 -> [b EXCEPT !.service_interval_km = v]
      [] k = 13 -> [b EXCEPT !.service_interval_days = v]
      [] k = 14 -> [b EXCEPT !.service_history_count = v]
      [] k = 15 -> [b EXCEPT !.status = v]
      [] k = 16 -> [b EXCEPT !.km_left = v]
      [] k = 17 -> [b EXCEPT !.health_score = v]
      [] k = 18 -> [b EXCEPT !.avg_daily_km = v]
      [] k = 19 -> [b EXCEPT !.fuel_efficiency = v]

\* the k-th conversion of the fscanf of a record, after s: '|' must come
\* before each conversion but the first, and a conversion that fails ends the
\* call with the stream left where it failed.  The final "\n" of the format
\* skips white space
scan_step(t, s, k) ==
    LET sep == k = 1 \/ (s.pos <= Len(t) /\ t[s.pos] = 124)
        r == scan_field(t, IF k = 1 THEN s.pos ELSE s.pos + 1, k)
    IN  IF ~s.live THEN s
        ELSE IF ~sep THEN [s EXCEPT !.live = FALSE]
        ELSE IF ~r.ok THEN [s EXCEPT !.live = FALSE, !.pos = r.pos]
        ELSE [b |-> set_field(s.b, k, r.val),
              pos |-> IF k = 19 THEN SkipWs(t, r.pos) ELSE r.pos,
              got |-> k, live |-> TRUE]

\* one fscanf of a record from position p into a slot that holds old: the
\* conversions are made in order.  got is the return value
scan_record(t, p, old) ==
    LET step[k \in 0..19] ==
            IF k = 0 THEN [b |-> old, pos |-> p, got |-> 0, live |-> TRUE]
            ELSE CHOOSE x \in {scan_step(t, s, k) : s \in {step[k - 1]}} : TRUE
    IN  step[19]

\* what a slot of the array holds and what status_int holds before fscanf
\* has written them: the memory is not initialised
GarbageSlots ==
    {[bus_code |-> <<>>, driver_name |-> <<>>, bus_no |-> 0,
      last_service |-> [day |-> 0, month |-> 0, year |-> 0],
      next_due |-> [day |-> 0, month |-> 0, year |-> 0],
      current_mileage |-> 0, last_service_mileage |-> 0,
      service_interval_km |-> 0, service_interval_days |-> 0,
      service_history_count |-> 0, status |-> 0,
      km_left |-> 0, health_score |-> 0,
      avg_daily_km |-> 0, fuel_efficiency |-> 0],
     [bus_code |-> <<63>>, driver_name |-> <<63, 63>>, bus_no |-> 21845,
      last_service |-> [day |-> 85, month |-> 85, year |-> 21845],
      next_due |-> [day |-> 85, month |-> 85, year |-> 21845],
      current_mileage |-> 21845, last_service_mileage |-> 85,
      service_interval_km |-> 85, service_interval_days |-> 21845,
      service_history_count |-> 85, status |-> 85,
      km_left |-> 85, health_score |-> 21845,
      avg_daily_km |-> 85, fuel_efficiency |-> 85]}

\* fscanf(fp, "%d\n", &n)
scan_count(t) ==
    LET h == scan_d(t, 1)
    IN  [ok |-> h.ok, n |-> h.val, pos |-> SkipWs(t, h.pos)]

\* one pass of the for loop of load_fleet_from_file, after s: the record is
\* kept whatever fscanf returns, and a return value other than 19 prints the
\* warning
load_step(t, s, garbage) ==
    CHOOSE x \in
      {[f |-> Append(s.f, r.b), pos |-> r.pos,
        warnings |-> s.warnings + (IF r.got = 19 THEN 0 ELSE 1)] :
         r \in {scan_record(t, s.pos, garbage)}} : TRUE

\* the for loop of load_fleet_from_file over n slots that hold garbage:
\* the records, and how many times the warning is printed
scan_records(t, p, n, garbage) ==
    LET upto[i \in 0..n] ==
            IF i = 0 THEN [f |-> <<>>, pos |-> p, warnings |-> 0]
            ELSE CHOOSE x \in {load_step(t, s, garbage) : s \in {upto[i - 1]}} :
                   TRUE
    IN  upto[n]

(***************************************************************************)
(* Search and uniqueness helpers (indices are 0-based as in the source)     *)
(***************************************************************************)
count == Len(fleet)

\* mutant: a miss returns the last index the loop reached instead of -1
find_bus_index_last_on_miss(f, bus_no) ==
    IF \E i \in 1..Len(f) : f[i].bus_no = bus_no
    THEN (CHOOSE i \in 1..Len(f) :
            /\ f[i].bus_no = bus_no
            /\ \A j \in 1..(i - 1) : f[j].bus_no # bus_no) - 1
    ELSE Len(f) - 1

find_bus_index(f, bus_no) ==
    IF \E i \in 1..Len(f) : f[i].bus_no = bus_no
    THEN (CHOOSE i \in 1..Len(f) :
            /\ f[i].bus_no = bus_no
            /\ \A j \in 1..(i - 1) : f[j].bus_no # bus_no) - 1
    ELSE -1

\* mutant: the record being edited is not excluded
bus_code_exists_no_exclude(f, code, exclude_index) ==
    \E i \in 0..(Len(f) - 1) : str_ieq(f[i + 1].bus_code, code)

bus_code_exists(f, code, exclude_index) ==
    \E i \in 0..(Len(f) - 1) :
        i # exclude_index /\ str_ieq(f[i + 1].bus_code, code)

\* mutant: the loop stops one short of count
bus_no_exists_skips_last(f, bus_no, exclude_index) ==
    \E i \in 0..(Len(f) - 2) :
        i # exclude_index /\ f[i + 1].bus_no = bus_no

\* mutant: the loop returns after its first iteration
bus_no_exists_first_only(f, bus_no, exclude_index) ==
    \E i \in 0..(IF Len(f) > 0 THEN 0 ELSE -1) :
        i # exclude_index /\ f[i + 1].bus_no = bus_no

bus_no_exists(f, bus_no, exclude_index) ==
    \E i \in 0..(Len(f) - 1) :
        i # exclude_index /\ f[i + 1].bus_no = bus_no

\* summarize_maintenance: every record is evaluated against the date
summarize_maintenance(f, tdy) ==
    [i \in 1..Len(f) |-> update_maintenance_status(f[i], tdy)]

\* mutant: the records are not evaluated again before the menu
LoopTop_omitted(f, tdy) == f

\* the for loop at the top of the do-while body of main
LoopTop(f, tdy) ==
    [i \in 1..Len(f) |-> update_maintenance_status(f[i], tdy)]

\* mutant: the last record is moved into the hole (swap and truncate)
ShiftLeft_swap(f, i) ==
    [k \in 1..(Len(f) - 1) |-> IF k = i + 1 THEN f[Len(f)] ELSE f[k]]

\* the shifting loop of delete_bus, at 0-based index i
ShiftLeft(f, i) ==
    [k \in 1..(Len(f) - 1) |-> IF k < i + 1 THEN f[k] ELSE f[k + 1]]

(***************************************************************************)
(* main: start-up                                                           *)
(***************************************************************************)
Init ==
    /\ pc = "load"
    /\ fleet = <<>>
    /\ capacity = 0
    /\ today = NoDate
    /\ slot = <<>>
    /\ idx = -1
    /\ req = NoReq
    /\ msg = "none"
    /\ shown = <<>>
    /\ file = NoFile

\* load_fleet_from_file
Load ==
    /\ pc = "load"
    /\ pc' = "refdate"
    /\ \/ /\ ~file.present
          /\ fleet' = <<>>
          /\ msg' = "none"
          /\ req' = Req("load", 0, <<>>, -1)
          /\ UNCHANGED capacity
       \/ /\ file.present
          /\ ~scan_count(file.text).ok \/ scan_count(file.text).n <= 0
          /\ fleet' = <<>>
          /\ msg' = "data_file_empty_or_invalid"
          /\ req' = Req("load", 0, <<>>, -1)
          /\ UNCHANGED capacity
       \/ /\ file.present
          /\ scan_count(file.text).ok
          /\ scan_count(file.text).n > 0
          /\ scan_count(file.text).n > capacity
          /\ fleet' = <<>>
          /\ msg' = "alloc_failed"
          /\ req' = Req("load", 0, <<>>, -1)
          /\ UNCHANGED capacity
       \/ /\ file.present
          /\ scan_count(file.text).ok
          /\ scan_count(file.text).n > 0
          /\ LET h == scan_count(file.text)
             IN  /\ capacity' = IF h.n > capacity THEN h.n ELSE capacity
                 /\ \E garbage \in GarbageSlots :
                       LET l == scan_records(file.text, h.pos, h.n, garbage)
                       IN  /\ fleet' = l.f
                           /\ req' = Req("load", l.warnings, <<>>, -1)
          /\ msg' = "loaded"
    /\ UNCHANGED <<today, slot, idx, shown, file>>

\* today = read_date(...); summarize_maintenance; first pass of the loop top
ReadRefDate ==
    /\ pc = "refdate"
    /\ \E d \in RefDates :
          /\ today' = d
          /\ fleet' = LoopTop(summarize_maintenance(fleet, d), d)
    /\ pc' = "menu"
    /\ msg' = "summary"
    /\ UNCHANGED <<capacity, slot, idx, req, shown, file>>

(***************************************************************************)
(* main: the menu.  Each command is its handler followed by the loop top    *)
(* of the next iteration.                                                   *)
(***************************************************************************)
\* case 1
ChangeDate ==
    /\ pc = "menu"
    /\ \E d \in RefDates :
          /\ today' = d
          /\ fleet' = LoopTop(summarize_maintenance(fleet, d), d)
    /\ msg' = "summary"
    /\ req' = NoReq
    /\ shown' = <<>>
    /\ UNCHANGED <<pc, capacity, slot, idx, file>>

\* case 2, add_bus: realloc fails
AddAllocFail ==
    /\ pc = "menu"
    /\ count < MaxFleet
    /\ count >= capacity
    /\ fleet' = LoopTop(fleet, today)
    /\ msg' = "alloc_failed"
    /\ req' = NoReq
    /\ shown' = <<>>
    /\ UNCHANGED <<pc, capacity, today, slot, idx, file>>

\* case 2, add_bus: room is made, the code prompt is next
AddBegin ==
    /\ pc = "menu"
    /\ count < MaxFleet
    /\ capacity' = IF count >= capacity
                   THEN (IF capacity = 0 THEN 4 ELSE capacity * 2)
                   ELSE capacity
    /\ pc' = "add_code"
    /\ slot' = <<>>
    /\ msg' = "none"
    /\ req' = NoReq
    /\ shown' = <<>>
    /\ UNCHANGED <<fleet, today, idx, file>>

\* add_bus, code prompt: empty line or a code that exists; asks again
AddCodeRejected ==
    /\ pc = "add_code"
    /\ \E line \in CodeInputs \cup {<<>>} :
          /\ req' = Req("add_code", 0, line, -1)
          /\ \/ /\ line = <<>>
                /\ msg' = "code_empty"
             \/ /\ line # <<>>
                /\ bus_code_exists(fleet, to_upper_str(line), -1)
                /\ msg' = "dup_code"
    /\ UNCHANGED <<pc, fleet, capacity, today, slot, idx, shown, file>>

\* add_bus, code prompt: the code is stored into fleet[count].bus_code
AddCodeAccepted ==
    /\ pc = "add_code"
    /\ \E line \in CodeInputs :
          /\ ~bus_code_exists(fleet, to_upper_str(line), -1)
          /\ req' = Req("add_code", 0, line, -1)
          /\ slot' = strncpy_z(to_upper_str(line), BUS_CODE_SIZE)
    /\ pc' = "add_no"
    /\ msg' = "code_ok"
    /\ UNCHANGED <<fleet, capacity, today, idx, shown, file>>

\* add_bus, number prompt: the number exists; asks again
AddNoRejected ==
    /\ pc = "add_no"
    /\ \E no \in BusNos :
          /\ bus_no_exists(fleet, no, -1)
          /\ req' = Req("add_no", no, <<>>, -1)
    /\ msg' = "dup_no"
    /\ UNCHANGED <<pc, fleet, capacity, today, slot, idx, shown, file>>

\* add_bus, number prompt accepted, the other fields read, count++
AddNoAccepted ==
    /\ pc = "add_no"
    /\ \E no \in BusNos, name \in NameInputs, p \in AddProfiles :
          /\ ~bus_no_exists(fleet, no, -1)
          /\ req' = Req("add_no", no, <<>>, -1)
          /\ fleet' = LoopTop(
                 Append(fleet,
                        Bus(slot, strncpy_z(name, DRIVER_NAME_SIZE), no,
                            p[1], p[2], p[3], p[4], p[5])),
                 today)
    /\ pc' = "menu"
    /\ slot' = <<>>
    /\ msg' = "added"
    /\ UNCHANGED <<capacity, today, idx, shown, file>>

\* case 3, choose_bus_position with no buses: nothing to select
EditEmpty ==
    /\ pc = "menu"
    /\ count = 0
    /\ fleet' = LoopTop(fleet, today)
    /\ msg' = "no_buses_to_select"
    /\ req' = NoReq
    /\ shown' = <<>>
    /\ UNCHANGED <<pc, capacity, today, slot, idx, file>>

\* case 3, choose_bus_position: a position 1..count is read
EditBegin ==
    /\ pc = "menu"
    /\ count > 0
    /\ \E pos \in 1..count :
          /\ idx' = pos - 1
          /\ req' = Req("edit_pos", pos, <<>>, pos - 1)
    /\ pc' = "edit_code"
    /\ msg' = "editing"
    /\ shown' = <<>>
    /\ UNCHANGED <<fleet, capacity, today, slot, file>>

\* edit_bus_by_position, code prompt: the code exists elsewhere; asks again
EditCodeRejected ==
    /\ pc = "edit_code"
    /\ \E line \in CodeInputs :
          /\ bus_code_exists(fleet, to_upper_str(line), idx)
          /\ req' = Req("edit_code", 0, line, idx)
    /\ msg' = "dup_code"
    /\ UNCHANGED <<pc, fleet, capacity, today, slot, idx, shown, file>>

\* edit_bus_by_position, code prompt: empty keeps the code, else it is stored
EditCodeAccepted ==
    /\ pc = "edit_code"
    /\ \E line \in CodeInputs \cup {<<>>} :
          /\ req' = Req("edit_code", 0, line, idx)
          /\ \/ /\ line = <<>>
                /\ fleet' = fleet
             \/ /\ line # <<>>
                /\ ~bus_code_exists(fleet, to_upper_str(line), idx)
                /\ fleet' = [fleet EXCEPT ![idx + 1].bus_code =
                               strncpy_z(to_upper_str(line), BUS_CODE_SIZE)]
    /\ pc' = "edit_no"
    /\ msg' = "code_ok"
    /\ UNCHANGED <<capacity, today, slot, idx, shown, file>>

\* edit_bus_by_position, number prompt: the number exists elsewhere
EditNoRejected ==
    /\ pc = "edit_no"
    /\ \E no \in BusNos :
          /\ bus_no_exists(fleet, no, idx)
          /\ req' = Req("edit_no", no, <<>>, idx)
    /\ msg' = "dup_no"
    /\ UNCHANGED <<pc, fleet, capacity, today, slot, idx, shown, file>>

\* edit_bus_by_position, number accepted and the other fields read
EditNoAccepted ==
    /\ pc = "edit_no"
    /\ \E no \in BusNos, name \in NameInputs, p \in EditProfiles :
          /\ ~bus_no_exists(fleet, no, idx)
          /\ req' = Req("edit_no", no, <<>>, idx)
          /\ fleet' = LoopTop(
                 [fleet EXCEPT
                    ![idx + 1].bus_no = no,
                    ![idx + 1].driver_name = strncpy_z(name, DRIVER_NAME_SIZE),
                    ![idx + 1].last_service = p[1],
                    ![idx + 1].last_service_mileage = p[2],
                    ![idx + 1].current_mileage = p[3],
                    ![idx + 1].service_interval_km = p[4],
                    ![idx + 1].service_interval_days = p[5]],
                 today)
    /\ pc' = "menu"
    /\ idx' = -1
    /\ msg' = "updated"
    /\ UNCHANGED <<capacity, today, slot, shown, file>>

\* case 4, update_mileage
UpdateMileage ==
    /\ pc = "menu"
    /\ \E no \in BusNos :
          LET i == find_bus_index(fleet, no)
          IN  /\ req' = Req("update_mileage", no, <<>>, i)
              /\ \/ /\ i = -1
                    /\ msg' = "not_found"
                    /\ fleet' = LoopTop(fleet, today)
                 \/ /\ i # -1
                    /\ msg' = "mileage_updated"
                    /\ \E km \in MileageInputs :
                          fleet' = LoopTop(
                              [fleet EXCEPT ![i + 1].current_mileage = km],
                              today)
    /\ shown' = <<>>
    /\ UNCHANGED <<pc, capacity, today, slot, idx, file>>

\* case 5, delete_bus
DeleteBus ==
    /\ pc = "menu"
    /\ \E no \in BusNos :
          LET i == find_bus_index(fleet, no)
          IN  /\ req' = Req("delete", no, <<>>, i)
              /\ \/ /\ i = -1
                    /\ msg' = "not_found"
                    /\ fleet' = LoopTop(fleet, today)
                 \/ /\ i # -1
                    /\ msg' = "deleted"
                    /\ fleet' = LoopTop(ShiftLeft(fleet, i), today)
    /\ shown' = <<>>
    /\ UNCHANGED <<pc, capacity, today, slot, idx, file>>

\* case 6, search_bus
SearchBus ==
    /\ pc = "menu"
    /\ \E no \in BusNos :
          LET i == find_bus_index(fleet, no)
          IN  /\ req' = Req("search", 0, <<>>, -1)
              /\ \/ /\ i = -1
                    /\ msg' = "not_found"
                    /\ shown' = <<>>
                 \/ /\ i # -1
                    /\ msg' = "displayed"
                    /\ shown' = <<fleet[i + 1]>>
    /\ fleet' = LoopTop(fleet, today)
    /\ UNCHANGED <<pc, capacity, today, slot, idx, file>>

\* case 7, display_all_buses
ViewAll ==
    /\ pc = "menu"
    /\ shown' = fleet
    /\ msg' = IF count = 0 THEN "no_buses" ELSE "fleet_summary"
    /\ req' = Req("view_all", 0, <<>>, -1)
    /\ fleet' = LoopTop(fleet, today)
    /\ UNCHANGED <<pc, capacity, today, slot, idx, file>>

\* case 8, show_due_soon_or_overdue
ShowDue ==
    /\ pc = "menu"
    /\ shown' = SelectSeq(fleet,
                   LAMBDA b : b.status = STATUS_DUE_SOON
                              \/ b.status = STATUS_OVERDUE)
    /\ msg' = "due_list"
    /\ req' = Req("show_due", 0, <<>>, -1)
    /\ fleet' = LoopTop(fleet, today)
    /\ UNCHANGED <<pc, capacity, today, slot, idx, file>>

\* case 9, export_report: one row per record unless the file cannot be opened
ExportReport ==
    /\ pc = "menu"
    /\ \/ /\ shown' = fleet
          /\ msg' = "report_exported"
       \/ /\ shown' = <<>>
          /\ msg' = "report_open_failed"
    /\ req' = Req("export", 0, <<>>, -1)
    /\ fleet' = LoopTop(fleet, today)
    /\ UNCHANGED <<pc, capacity, today, slot, idx, file>>

\* case 10, save_fleet_to_file, then the loop ends and main returns
SaveExit ==
    /\ pc = "menu"
    /\ \/ /\ file' = FileOf(save_text(fleet))
          /\ shown' = fleet
          /\ msg' = "saved"
       \/ /\ file' = file
          /\ shown' = <<>>
          /\ msg' = "save_open_failed"
    /\ req' = Req("save", 0, <<>>, -1)
    /\ pc' = "done"
    /\ UNCHANGED <<fleet, capacity, today, slot, idx>>

Next ==
    \/ Load
    \/ ReadRefDate
    \/ ChangeDate
    \/ AddAllocFail
    \/ AddBegin
    \/ AddCodeRejected
    \/ AddCodeAccepted
    \/ AddNoRejected
    \/ AddNoAccepted
    \/ EditEmpty
    \/ EditBegin
    \/ EditCodeRejected
    \/ EditCodeAccepted
    \/ EditNoRejected
    \/ EditNoAccepted
    \/ UpdateMileage
    \/ DeleteBus
    \/ SearchBus
    \/ ViewAll
    \/ ShowDue
    \/ ExportReport
    \/ SaveExit

\* a session that starts without a data file: the fleet starts empty
Spec == Init /\ [][Next]_vars

(***************************************************************************)
(* A session that starts with a data file on disk.  The lines of a file     *)
(* hold whatever a former save, or an editor, put there: the saved derived  *)
(* fields, codes in any case, numbers used twice, dates read_date would     *)
(* have refused, an interval of 0.                                          *)
(***************************************************************************)
FileBus(code, no, ls, lsm, cur, ikm, idays, st, left, score) ==
    [Bus(code, <<74, 111, 101>>, no, ls, lsm, cur, ikm, idays) EXCEPT
        !.status = st, !.km_left = left, !.health_score = score]

FileFleet ==
    <<FileBus(<<65, 49>>, 1, Date(31, 13, 2023), 0, 50, 1000, 30,
              STATUS_OVERDUE, 0, 500),
      FileBus(<<97, 49>>, 1, Date(1, 1, 2024), 100, 50, 0, 0,
              STATUS_OK, 50, 50),
      FileBus(X19, 7, Date(1, 1, 2024), 0, 50, 1000, 30,
              STATUS_OK, 950, 96)>>

DataFiles ==
    {NoFile, FileOf(<<48, 10>>), FileOf(save_text(FileFleet))}

InitFile ==
    /\ pc = "load"
    /\ fleet = <<>>
    /\ capacity = 0
    /\ today = NoDate
    /\ slot = <<>>
    /\ idx = -1
    /\ req = NoReq
    /\ msg = "none"
    /\ shown = <<>>
    /\ file \in DataFiles

SpecFile == InitFile /\ [][Next]_vars

(***************************************************************************)
(* The evaluator alone: update_maintenance_status applied once to a record  *)
(* whose fields, and a reference date, are drawn from EvalBuses, EvalDates  *)
(***************************************************************************)
EvalLastDates ==
    {Date(1, 1, 2024), Date(15, 6, 2023), Date(1, 12, 2023),
     Date(31, 12, 2023), Date(31, 13, 2023), NoDate}

EvalDates == {Date(1, 1, 2024), Date(1, 3, 2024), NoDate}

\* records of a data file whose mileages are floats from 2^24 on, where a
\* float holds even numbers only: the loader reads them with %f and checks
\* no range
LargeFileBuses ==
    {FileBus(<<65, 49>>, 7, Date(1, 1, 2024), P24, cur, ikm, idays,
             STATUS_OK, 0, 500) :
        cur \in {P24, P24 + 2, P24 + 4},
        ikm \in {1, 2},
        idays \in {0, 30}}

EvalBuses ==
    {FileBus(<<65, 49>>, 7, ls, lsm, cur, ikm, idays, STATUS_OK, 0, 500) :
        ls \in EvalLastDates,
        lsm \in {0, 100, 9000},
        cur \in {0, 50, 600, 1000, 1500, 9200, 9600, 14000, 25000, 99999992,
                 F_NAN},
        \* 99999992 and NaN are mileages update_mileage accepts ("nan" passes
        \* the range test of read_float_strict)
        ikm \in {-1000, 0, 1, 100, 1000, 10000},
        idays \in {0, 4, 30, 5000}}
    \cup LargeFileBuses

InitEval ==
    /\ pc = "eval"
    /\ fleet \in {<<b>> : b \in EvalBuses}
    /\ capacity = 1
    /\ today \in EvalDates
    /\ slot = <<>>
    /\ idx = -1
    /\ req = NoReq
    /\ msg = "none"
    /\ shown = <<>>
    /\ file = NoFile

Evaluate ==
    /\ pc = "eval"
    /\ fleet' = <<update_maintenance_status(fleet[1], today)>>
    /\ pc' = "evaluated"
    /\ UNCHANGED <<capacity, today, slot, idx, req, msg, shown, file>>

NextEval == Evaluate

SpecEval == InitEval /\ [][NextEval]_vars

(***************************************************************************)
(* Save and load: a session at the menu with a fleet that add_bus can have  *)
(* built saves and ends, the program is started again and loads what was    *)
(* written; or the program is started on a data file one of whose lines is  *)
(* not a complete record                                                    *)
(***************************************************************************)
CodecDate == Date(1, 1, 2024)

\* "A1", "A|B", " A1" and a code of 19 characters
CodecCodes == {<<65, 49>>, <<65, 124, 66>>, <<32, 65, 49>>, X19}

\* "Joe", "Jo|e", " Joe"
CodecNames == {<<74, 111, 101>>, <<74, 111, 124, 101>>, <<32, 74, 111, 101>>}

\* a record as add_bus (or edit_bus_by_position) and the loop top leave it
CodecBus(code, name, no, p) ==
    update_maintenance_status(
        Bus(code, name, no, p[1], p[2], p[3], p[4], p[5]), CodecDate)

CodecFleets ==
    {<<>>}
    \cup {<<CodecBus(c, n, 1, p)>> :
            c \in CodecCodes, n \in CodecNames, p \in AddProfiles}
    \cup {<<CodecBus(c[1], n[1], 1, p[1]), CodecBus(c[2], n[2], 2, p[2])>> :
            c \in {x \in CodecCodes \X CodecCodes : x[1] # x[2]},
            n \in CodecNames \X CodecNames,
            p \in AddProfiles \X EditProfiles}

\* three records that are written and read back unchanged
PlainBus(code, no) ==
    CodecBus(code, <<74, 111, 101>>, no,
             CHOOSE p \in AddProfiles : TRUE)

\* lines for record b that are not complete records: a bus number that is
\* no number ("x7"), the last field missing, a month that is no number
\* ("Jan"), an empty code
BadLines(b) ==
    {JoinLine([BusFields(b) EXCEPT ![3] = <<120, 55>>]),
     JoinLine(SubSeq(BusFields(b), 1, 18)),
     JoinLine([BusFields(b) EXCEPT ![5] = <<74, 97, 110>>]),
     JoinLine([BusFields(b) EXCEPT ![1] = <<>>])}

\* data files with one such line, and the records of their other lines
CorruptCases ==
    LET g1 == PlainBus(<<65, 49>>, 1)
        g2 == PlainBus(<<66, 50>>, 2)
        g3 == PlainBus(<<67, 51>>, 3)
    IN  {[text |-> fmt_d(2) \o <<10>> \o bad \o save_line(g2),
          expect |-> <<g2>>] : bad \in BadLines(g1)}
        \cup {[text |-> fmt_d(2) \o <<10>> \o save_line(g1) \o bad,
               expect |-> <<g1>>] : bad \in BadLines(g2)}
        \cup {[text |-> fmt_d(3) \o <<10>> \o save_line(g1) \o bad
                           \o save_line(g3),
               expect |-> <<g1, g3>>] : bad \in BadLines(g2)}

InitCodec ==
    /\ slot = <<>>
    /\ idx = -1
    /\ req = NoReq
    /\ shown = <<>>
    /\ \/ /\ pc = "menu"
          /\ fleet \in CodecFleets
          /\ capacity = 4
          /\ today = CodecDate
          /\ msg = "summary"
          /\ file = NoFile
       \/ /\ pc = "load"
          /\ fleet = <<>>
          /\ capacity = 0
          /\ today = NoDate
          /\ msg = "none"
          /\ file \in {FileOf(c.text) : c \in CorruptCases}

\* the program is started again: main begins with no fleet; the data file is
\* what the session before left
Relaunch ==
    /\ pc = "done"
    /\ pc' = "load"
    /\ fleet' = <<>>
    /\ capacity' = 0
    /\ today' = NoDate
    /\ slot' = <<>>
    /\ idx' = -1
    /\ req' = NoReq
    /\ msg' = "none"
    /\ UNCHANGED <<shown, file>>

NextCodec ==
    \/ SaveExit
    \/ Relaunch
    \/ Load

SpecCodec == InitCodec /\ [][NextCodec]_vars

(***************************************************************************)
(* Properties                                                               *)
(***************************************************************************)
InFleet == 1..Len(fleet)

\* C1: from an empty fleet, no two records hold codes that are equal when
\* compared ignoring letter case
C1_UniqueCodes ==
    \A i, j \in InFleet :
        i # j => ~str_ieq(fleet[i].bus_code, fleet[j].bus_code)

\* C2: from an empty fleet, no two records have the same bus number
C2_UniqueNumbers ==
    \A i, j \in InFleet : i # j => fleet[i].bus_no # fleet[j].bus_no

C2_Witness ==
    /\ pc = "menu"
    /\ msg = "updated"
    /\ Len(fleet) = 2

\* C3: a code submitted to add that equals an existing code ignoring case is
\* rejected as a duplicate and nothing is stored; any other code is accepted
\* and stored in uppercase (the first 19 characters of it), and that stored
\* code is the code of the record the add appends
C3_AddCodeCheck ==
    [][/\ (pc = "add_code" /\ req'.op = "add_code" /\ req'.code # <<>>) =>
            IF \E i \in InFleet : str_ieq(fleet[i].bus_code, req'.code)
            THEN /\ msg' = "dup_code"
                 /\ pc' = "add_code"
                 /\ fleet' = fleet
                 /\ slot' = slot
            ELSE /\ msg' = "code_ok"
                 /\ pc' = "add_no"
                 /\ fleet' = fleet
                 /\ Len(slot') = IF Len(req'.code) < BUS_CODE_SIZE - 1
                                 THEN Len(req'.code) ELSE BUS_CODE_SIZE - 1
                 /\ \A k \in 1..Len(slot') :
                       /\ slot'[k] \notin 97..122
                       /\ c_tolower(slot'[k]) = c_tolower(req'.code[k])
       /\ (pc = "add_no" /\ pc' = "menu") =>
            /\ Len(fleet') = Len(fleet) + 1
            /\ fleet'[Len(fleet')].bus_code = slot
            /\ \A i \in InFleet : fleet'[i].bus_code = fleet[i].bus_code
      ]_vars

\* existing A1, submitted a1: rejected
C3_Witness ==
    /\ pc = "add_code"
    /\ msg = "dup_code"
    /\ req.code = <<97, 49>>
    /\ \E i \in InFleet : fleet[i].bus_code = <<65, 49>>

\* C4: an add that submits a number a record already has is rejected as a
\* duplicate number and leaves the fleet, its size and every record, unchanged
C4_DupNumberRejected ==
    [][(/\ pc = "add_no"
        /\ req'.op = "add_no"
        /\ \E i \in InFleet : fleet[i].bus_no = req'.no)
          => (msg' = "dup_no" /\ pc' = "add_no" /\ fleet' = fleet)]_vars

C4_Witness ==
    /\ pc = "add_no"
    /\ msg = "dup_no"
    /\ \E i \in InFleet : fleet[i].bus_no = req.no

\* C5: delete-by-number of a number in the fleet removes the first record
\* with that number and no other; the records before it stay in place, the
\* records after it move one place left, every field unchanged
C5_DeleteShifts ==
    [][(/\ pc = "menu"
        /\ req'.op = "delete"
        /\ \E i \in InFleet : fleet[i].bus_no = req'.no)
          => LET k == CHOOSE i \in InFleet :
                        /\ fleet[i].bus_no = req'.no
                        /\ \A j \in 1..(i - 1) : fleet[j].bus_no # req'.no
             IN  /\ msg' = "deleted"
                 /\ Len(fleet') = Len(fleet) - 1
                 /\ \A j \in 1..Len(fleet') :
                       fleet'[j] = IF j < k THEN fleet[j] ELSE fleet[j + 1]
      ]_vars

\* the first of three records was deleted; the record now first has the
\* same number and was left in the fleet
C5_Witness ==
    /\ msg = "deleted"
    /\ req.op = "delete"
    /\ req.at = 0
    /\ Len(fleet) = 2
    /\ fleet[1].bus_no = req.no

\* C6: a delete or a mileage update that names a number no record has
\* reports not-found and leaves the fleet unchanged
C6_NotFoundUnchanged ==
    [][(/\ pc = "menu"
        /\ req'.op \in {"delete", "update_mileage"}
        /\ \A i \in InFleet : fleet[i].bus_no # req'.no)
          => (msg' = "not_found" /\ fleet' = fleet /\ pc' = "menu")]_vars

C6_Witness ==
    /\ msg = "not_found"
    /\ req.op = "update_mileage"
    /\ Len(fleet) = 2

Fresh(b) ==
    LET e == update_maintenance_status(b, today)
    IN  /\ b.status = e.status
        /\ b.km_left = e.km_left
        /\ b.health_score = e.health_score
        /\ b.next_due = e.next_due

\* C7: whatever a search, list, export or save emits, and every record of
\* the fleet whenever the menu is waiting for a command, carries the status,
\* km left, health score and next due date that its other fields and the
\* current reference date evaluate to
C7_DerivedFresh ==
    /\ \A i \in 1..Len(shown) : Fresh(shown[i])
    /\ pc = "menu" => \A i \in InFleet : Fresh(fleet[i])
    /\ (pc = "done" /\ msg = "saved") =>
          file.text = save_text(summarize_maintenance(fleet, today))

\* a list of two records, one with an updated mileage, after the reference
\* date was changed
C7_Witness ==
    /\ msg = "fleet_summary"
    /\ Len(shown) = 2
    /\ today = Date(1, 3, 2024)
    /\ \E i \in 1..Len(shown) : shown[i].current_mileage = 600
    /\ \E i \in 1..Len(shown) : shown[i].status = STATUS_OVERDUE

\* C8: after evaluation the status is OVERDUE whenever the current mileage
\* has reached last service mileage + interval, whatever the dates and the
\* day interval are
C8_MileageOverdue ==
    pc = "evaluated" =>
        (fleet[1].current_mileage >=
            fleet[1].last_service_mileage + fleet[1].service_interval_km
         => fleet[1].status = STATUS_OVERDUE)

\* due by mileage exactly, no day interval, a last service date and a
\* reference date that are not dates
C8_Witness ==
    /\ pc = "evaluated"
    /\ fleet[1].current_mileage =
          fleet[1].last_service_mileage + fleet[1].service_interval_km
    /\ fleet[1].service_interval_days = 0
    /\ ~is_valid_date(fleet[1].last_service)
    /\ ~is_valid_date(today)
    /\ fleet[1].status = STATUS_OVERDUE

dayCount(d) == d.year * 365 + d.month * 30 + d.day

DaysReached(b) ==
    /\ b.service_interval_days > 0
    /\ dayCount(today) - dayCount(b.last_service) >= b.service_interval_days

StructurallyValid(d) ==
    d.year > 0 /\ d.month \in 1..12 /\ d.day \in 1..31

\* C9 as stated: every record of the fleet (loaded ones too) whose day
\* interval is set and reached is OVERDUE
C9_DateOverdueAnyDate ==
    pc = "menu" =>
        \A i \in InFleet :
            DaysReached(fleet[i]) => fleet[i].status = STATUS_OVERDUE

\* C9 amended: every record of the fleet (loaded ones too) whose day interval
\* is set and reached, counted from a structurally valid last service date
\* to a structurally valid reference date, is OVERDUE
C9_DateOverdue ==
    pc = "menu" =>
        \A i \in InFleet :
            (/\ DaysReached(fleet[i])
             /\ StructurallyValid(fleet[i].last_service)
             /\ StructurallyValid(today))
               => fleet[i].status = STATUS_OVERDUE

\* a record 60 days after its service, interval 30 days, 950 km left
C9_Witness ==
    /\ pc = "menu"
    /\ \E i \in InFleet :
          /\ DaysReached(fleet[i])
          /\ StructurallyValid(fleet[i].last_service)
          /\ fleet[i].current_mileage <
                fleet[i].last_service_mileage + fleet[i].service_interval_km
          /\ fleet[i].status = STATUS_OVERDUE

\* C10: after evaluation the health score is an integer in 0..100, and it is
\* 50 when the interval in km is 0
C10_HealthRange ==
    pc = "evaluated" =>
        /\ fleet[1].health_score \in 0..100
        /\ fleet[1].service_interval_km = 0 => fleet[1].health_score = 50

\* no interval, and a current mileage below the last service mileage
C10_Witness ==
    /\ pc = "evaluated"
    /\ fleet[1].service_interval_km = 0
    /\ fleet[1].current_mileage < fleet[1].last_service_mileage
    /\ fleet[1].health_score = 50


\* the record of the two scenarios, with the given current mileage
ScenarioRecord(b, cur) ==
    /\ b.bus_no = 7
    /\ b.last_service_mileage = 9000
    /\ b.service_interval_km = 10000
    /\ b.current_mileage = cur
    /\ b.service_interval_days = 0

\* C11 as stated: the scenario record at 9600 km evaluates to 400 km left,
\* DUE_SOON, health score 60
C11_ScenarioAsStated ==
    (pc = "evaluated" /\ ScenarioRecord(fleet[1], 9600)) =>
        /\ fleet[1].km_left = 400
        /\ fleet[1].status = STATUS_DUE_SOON
        /\ fleet[1].health_score = 60

\* C11 amended: the scenario record at 9600 km evaluates to 9400 km left
\* (9000 + 10000 - 9600), OK, health score 96 (used 600 of 10000)
C11_Scenario ==
    (pc = "evaluated" /\ ScenarioRecord(fleet[1], 9600)) =>
        /\ fleet[1].km_left = 9400
        /\ fleet[1].status = STATUS_OK
        /\ fleet[1].health_score = 96

C11_Witness ==
    /\ pc = "evaluated"
    /\ ScenarioRecord(fleet[1], 9600)
    /\ fleet[1].km_left > DUE_SOON_KM

\* C12 as stated: the scenario record at 9200 km evaluates to 800 km left,
\* OK, health score 87
C12_ScenarioAsStated ==
    (pc = "evaluated" /\ ScenarioRecord(fleet[1], 9200)) =>
        /\ fleet[1].km_left = 800
        /\ fleet[1].status = STATUS_OK
        /\ fleet[1].health_score = 87

\* C12 amended: the scenario record at 9200 km evaluates to 9800 km left, OK,
\* health score 98, the truncation of (1.5 - 200/10000) / 1.5 * 100 = 98.67
\* (in 150ths: 98 * 150 <= 100 * (150 - 3) < 99 * 150)
C12_Scenario ==
    (pc = "evaluated" /\ ScenarioRecord(fleet[1], 9200)) =>
        /\ fleet[1].km_left = 9800
        /\ fleet[1].status = STATUS_OK
        /\ fleet[1].health_score = 98
        /\ fleet[1].health_score * 150 <= 100 * (150 - 3)
        /\ 100 * (150 - 3) < (fleet[1].health_score + 1) * 150

C12_Witness ==
    /\ pc = "evaluated"
    /\ ScenarioRecord(fleet[1], 9200)
    /\ fleet[1].health_score < 99

\* C13: after evaluation km_left is last service mileage + interval - current
\* mileage, whatever the dates are
C13_KmLeftExact ==
    (pc = "evaluated" /\ ~FIsNaN(fleet[1].current_mileage)) =>
        fleet[1].km_left =
            fleet[1].last_service_mileage + fleet[1].service_interval_km
                - fleet[1].current_mileage

\* the date-overdue condition of the evaluator, from the fields
DateOverdueOf(b) ==
    /\ DaysReached(b)
    /\ StructurallyValid(b.last_service)
    /\ StructurallyValid(today)

\* C18: after evaluation the status is DUE_SOON exactly when the record is
\* neither mileage-overdue nor date-overdue and 0 < km left <= 500, and OK
\* exactly when it is not date-overdue and km left > 500
C18_StatusBand ==
    pc = "evaluated" =>
        LET b == fleet[1]
            mo == b.current_mileage >=
                     b.last_service_mileage + b.service_interval_km
        IN  /\ b.status = STATUS_DUE_SOON <=>
                  (/\ ~mo
                   /\ ~DateOverdueOf(b)
                   /\ 0 < b.km_left
                   /\ b.km_left <= DUE_SOON_KM)
            /\ b.status = STATUS_OK <=>
                  (~DateOverdueOf(b) /\ b.km_left > DUE_SOON_KM)

\* the day count a next due date falls on
NextDueTotal(b) == dayCount(b.last_service) + b.service_interval_days

NextDueCase(b) ==
    /\ StructurallyValid(b.last_service)
    /\ StructurallyValid(today)
    /\ b.service_interval_days \in 1..5000

\* C19 as stated: the next due date has the day count of the last service
\* date plus the interval, and the record is date-overdue exactly when the
\* reference date has reached the day count of the next due date
C19_NextDueInverseAsStated ==
    (pc = "evaluated" /\ NextDueCase(fleet[1])) =>
        /\ dayCount(fleet[1].next_due) = NextDueTotal(fleet[1])
        /\ DateOverdueOf(fleet[1]) <=>
              dayCount(today) >= dayCount(fleet[1].next_due)

\* C19 amended: the day count of the next due date is the last service day
\* count plus the interval, plus 30 when that total leaves fewer than 30 days
\* of its year (month 0 becomes 1), plus 1 when it leaves a multiple of 30
\* (day 0 becomes 1); when neither happens the record is date-overdue
\* exactly when the reference date has reached the next due date's day count
C19_NextDueInverse ==
    (pc = "evaluated" /\ NextDueCase(fleet[1])) =>
        LET total == NextDueTotal(fleet[1])
            rem == total % 365
            monthClamped == rem < 30
            dayClamped == rem % 30 = 0
        IN  /\ dayCount(fleet[1].next_due) =
                  total + (IF monthClamped THEN 30 ELSE 0)
                        + (IF dayClamped THEN 1 ELSE 0)
            /\ (~monthClamped /\ ~dayClamped) =>
                  (DateOverdueOf(fleet[1]) <=>
                      dayCount(today) >= dayCount(fleet[1].next_due))

\* 1-12-2023 plus 4 days: the total is a multiple of 365, month and day are
\* both raised to 1
C19_Witness ==
    /\ pc = "evaluated"
    /\ NextDueCase(fleet[1])
    /\ NextDueTotal(fleet[1]) % 365 = 0
    /\ fleet[1].next_due.month = 1
    /\ fleet[1].next_due.day = 1


\* C16: a save that cannot open the data file leaves the session at the
\* menu, where the save can be tried again
C16_SaveFailureKeepsSession ==
    msg = "save_open_failed" => pc = "menu"

\* C17: a session that has ended has saved: the data file holds the fleet as
\* it is at the end
C17_ExitPersists ==
    pc = "done" =>
        file = FileOf(save_text(fleet))

\* the code edit_bus_by_position stores for a submitted line
StoredCode(line, b) ==
    /\ Len(b.bus_code) = IF Len(line) < BUS_CODE_SIZE - 1
                         THEN Len(line) ELSE BUS_CODE_SIZE - 1
    /\ \A k \in 1..Len(b.bus_code) :
          /\ b.bus_code[k] \notin 97..122
          /\ c_tolower(b.bus_code[k]) = c_tolower(line[k])

\* C20: edit at position p works on index p - 1 and changes no other record,
\* nor the count or the order; it accepts the record's own code in any letter
\* case and its own number, rejects a code or a number another record has,
\* and changes nothing when the fleet is empty
C20_EditFrame ==
    [][/\ (pc = "menu" /\ req'.op = "edit_pos") =>
            /\ req'.no \in 1..Len(fleet)
            /\ idx' = req'.no - 1
            /\ fleet' = fleet
       /\ pc \in {"edit_code", "edit_no"} =>
            /\ Len(fleet') = Len(fleet)
            /\ \A j \in InFleet : j # idx + 1 => fleet'[j] = fleet[j]
       /\ (pc = "edit_code" /\ req'.op = "edit_code" /\ req'.code # <<>>) =>
            IF \E j \in InFleet :
                  j # idx + 1 /\ str_ieq(fleet[j].bus_code, req'.code)
            THEN msg' = "dup_code" /\ pc' = "edit_code" /\ fleet' = fleet
            ELSE /\ pc' = "edit_no"
                 /\ StoredCode(req'.code, fleet'[idx + 1])
       /\ (pc = "edit_no" /\ req'.op = "edit_no") =>
            IF \E j \in InFleet : j # idx + 1 /\ fleet[j].bus_no = req'.no
            THEN msg' = "dup_no" /\ pc' = "edit_no" /\ fleet' = fleet
            ELSE pc' = "menu" /\ fleet'[idx + 1].bus_no = req'.no
       /\ (pc = "menu" /\ Len(fleet) = 0 /\ msg' = "no_buses_to_select") =>
            fleet' = fleet /\ pc' = "menu"
      ]_vars

\* the second of two records, stored as A1, is given a1 and keeps its code
C20_Witness ==
    /\ pc = "edit_no"
    /\ msg = "code_ok"
    /\ idx = 1
    /\ Len(fleet) = 2
    /\ req.code = <<97, 49>>
    /\ fleet[2].bus_code = <<65, 49>>


\* C14: a fleet that was saved and is loaded from the file that was written
\* comes back with the same count, the same order and the same fields
C14_RoundTrip ==
    (/\ pc = "refdate"
     /\ msg \in {"loaded", "data_file_empty_or_invalid"}
     /\ file.present
     /\ file.text = save_text(shown))
        => fleet = shown

\* C15: a line that is not a complete record is skipped with a warning, and
\* the fleet that is loaded holds the records of the other lines
C15_CorruptLineSkipped ==
    \A c \in CorruptCases :
        (pc = "refdate" /\ msg = "loaded" /\ file.text = c.text) =>
            /\ req.no >= 1
            /\ fleet = c.expect


\* the mileages and the interval are ones the prompts take: last service
\* mileage up to 100000 km, interval from 1 to 100000 km, current mileage up
\* to 100000000 km
WithinPromptRanges(b) ==
    /\ b.last_service_mileage \in 0..100000
    /\ b.service_interval_km \in 1..100000
    /\ b.current_mileage \in 0..100000000

\* the used mileage is at least 1.5 times the interval
UsedOneAndAHalf(b) ==
    /\ ~FIsNaN(b.current_mileage)
    /\ 2 * (b.current_mileage - b.last_service_mileage)
          >= 3 * b.service_interval_km

=============================================================================
